---- MODULE Spec2Model ----
(***************************************************************************)
(* A model of the RAG layer of the repository: rag/chunker.py              *)
(* (TextChunker), rag/retriever.py (Retriever), rag/generator.py           *)
(* (Generator), rag/pipeline.py (RAGPipeline) and                          *)
(* vector_db/chroma_store.py (ChromaVectorStore); and of its MCP layer:    *)
(* mcp/protocol.py (MCPResponse) and mcp/server.py (MCPServer).            *)
(*                                                                         *)
(* Python values are modelled as follows.  A str is a sequence of          *)
(* one-character strings.  A dict is a function from its keys to its       *)
(* values.  An Optional argument is the empty sequence (None) or a         *)
(* one-element sequence holding the value.                                 *)
(***************************************************************************)
EXTENDS Integers, Sequences, FiniteSets, TLC

\* ------------------------------------------------------------------ bounds

\* Longest text handed to chunk_text.
MaxLen == 4
\* Largest chunk_size and chunk_overlap a TextChunker is constructed with.
MaxSize == 3
MaxOverlap == 3
\* Loop iterations of chunk_text that are followed before a run is cut off.
MaxIter == 8
\* Longest list of documents handed to chunk_documents.
MaxDocs == 2
\* Largest top_k a Retriever is constructed with, and largest k of a call.
MaxTopK == 2
MaxK == 2
\* Longest list of documents the vector store answers a search with.
MaxResults == 2

\* Most IDs the vector store has drawn when a call of add_documents is still
\* followed.
MaxStored == 2
\* Requests the server answers at the same time, each in its own thread.
MaxWorkers == 2

\* The defaults of TextChunker.__init__ and of Retriever.__init__.
DefaultChunkSize == 1000
DefaultChunkOverlap == 200
DefaultTopK == 5

\* The characters of the texts: a letter, and the three delimiters of
\* chunk_text, of which the blank and the line feed are whitespace.
Alphabet == {"a", " ", ".", "\n"}
Whitespace == {" ", "\n"}

\* ------------------------------------------------------- Python's values

None == <<>>
Some(x) == <<x>>
IsNone(o) == o = <<>>

EmptyDict == [key \in {} |-> 0]

\* dict.update: the entries of u replace and extend those of d.
DictUpdate(d, u) ==
    [key \in DOMAIN d \cup DOMAIN u |-> IF key \in DOMAIN u THEN u[key] ELSE d[key]]

\* The concatenation of the lists of a list of lists, in order.
RECURSIVE Flatten(_)
Flatten(ss) == IF ss = <<>> THEN <<>> ELSE Head(ss) \o Flatten(Tail(ss))

\* sep.join(parts).
RECURSIVE Join(_, _)
Join(parts, sep) ==
    IF parts = <<>> THEN <<>>
    ELSE IF Len(parts) = 1 THEN parts[1]
    ELSE parts[1] \o sep \o Join(Tail(parts), sep)

\* str(n) for a natural number n: its decimal digits.
Digit(d) == <<"0", "1", "2", "3", "4", "5", "6", "7", "8", "9">>[d + 1]
RECURSIVE Decimal(_)
Decimal(n) == IF n < 10 THEN <<Digit(n)>> ELSE Decimal(n \div 10) \o <<Digit(n % 10)>>

Max2(a, b) == IF a >= b THEN a ELSE b
Min2(a, b) == IF a <= b THEN a ELSE b

\* A slice bound as Python adjusts it: a negative bound counts from the end
\* of the sequence, and the result is clipped to 0 .. n.
AdjustIndex(i, n) == IF i < 0 THEN Max2(i + n, 0) ELSE Min2(i, n)

\* s[i:j], with 0-based bounds.
Slice(s, i, j) ==
    LET a == AdjustIndex(i, Len(s))
        b == AdjustIndex(j, Len(s))
    IN  IF a >= b THEN <<>> ELSE SubSeq(s, a + 1, b)

\* s.rfind(c, i, j): the highest 0-based index in s[i:j] that holds c, or -1.
RFind(s, c, i, j) ==
    LET a == AdjustIndex(i, Len(s))
        b == AdjustIndex(j, Len(s))
        hits == {p \in a .. (b - 1) : s[p + 1] = c}
    IN  IF hits = {} THEN -1 ELSE CHOOSE p \in hits : \A q \in hits : q <= p

\* s.strip(): s without its leading and trailing whitespace.
Strip(s) ==
    LET keep == {p \in 1 .. Len(s) : s[p] \notin Whitespace}
    IN  IF keep = {} THEN <<>>
        ELSE LET lo == CHOOSE p \in keep : \A q \in keep : p <= q
                 hi == CHOOSE p \in keep : \A q \in keep : q <= p
             IN  SubSeq(s, lo, hi)

\* ------------------------------------------------------------- the state

VARIABLES
    chunk_size,     \* TextChunker.chunk_size
    chunk_overlap,  \* TextChunker.chunk_overlap
    pc,             \* where chunk_text stands: "idle", "loop" or "returned"
    text,           \* chunk_text's argument text
    metadata,       \* chunk_text's argument metadata (Optional)
    start,          \* chunk_text's local start
    chunks,         \* chunk_text's local chunks, its result once returned
    iter,           \* history: the loop iterations executed by this call
    chunk_iter,     \* history: the iteration that appended each chunk
    dpc,            \* where chunk_documents stands: "idle", "zip",
                    \* "chunking" or "returned"
    documents,      \* chunk_documents' argument documents
    metadatas,      \* chunk_documents' argument metadatas (Optional), and
                    \* the list that replaces None at line 83
    doc_i,          \* the pairs of zip(documents, metadatas) consumed
    all_chunks,     \* chunk_documents' local all_chunks
    all_metadatas,  \* chunk_documents' local all_metadatas
    yielded,        \* history: the calls of chunk_text made by
                    \* chunk_documents, with their arguments and results
    top_k,          \* Retriever.top_k
    gen_model,      \* Generator.model
    call,           \* the last call of the retriever or the pipeline, with
                    \* its arguments
    store_calls,    \* the calls of similarity_search that call made
    store_result,   \* what the vector store answered (Optional: None when
                    \* it was not asked or raised)
    gen_calls,      \* the calls of Generator.generate that call made
    ret,            \* how that call ended: its return value, or raised
    add_calls,      \* the calls of the store's add_documents that call made
    collection,     \* ChromaVectorStore.collection: the stored documents,
                    \* by ID
    next_id,        \* the IDs handed out so far, plus one: ID n stands for
                    \* the n-th uuid4 drawn
    response,       \* an MCPResponse that was constructed (Optional)
    wire,           \* the dict its to_dict returned (Optional)
    decoded,        \* the MCPResponse that from_dict made of that dict
                    \* (Optional)
    db_connection,  \* MCPServer.db_connection: TRUE when a connection was
                    \* given, FALSE when it is None
    handlers,       \* MCPServer.handlers: from method names to handlers
    serving,        \* TRUE once MCPServer.run has been called
    request,        \* the body of the POST to /mcp being answered (Optional)
    reply,          \* the status and the JSON body it is answered with
                    \* (Optional)
    invoked,        \* history: the handler calls made for that request,
                    \* with their arguments, their outcomes and the calls
                    \* they made on the database connection
    raised_methods, \* history: the methods whose handler has raised for a
                    \* request answered before
    client_call,    \* the call of MCPClient being made: the method of the
                    \* client that was called and the MCPRequest it built
                    \* (Optional)
    posts,          \* history: the calls of requests.post that call made,
                    \* each with what came of it
    client_ret,     \* how that call ended: the MCPResponse returned, or
                    \* the exception raised (Optional)
    txn_pc,         \* by thread, where _handle_execute_sql stands
    fate,           \* by thread, what has become of the statement it
                    \* executed on the shared connection
    committer       \* by thread, the thread whose commit or rollback
                    \* ended the transaction its statement was in (0: none)

chunkVars == <<chunk_size, chunk_overlap, pc, text, metadata, start, chunks,
               iter, chunk_iter>>
docVars == <<dpc, documents, metadatas, doc_i, all_chunks, all_metadatas, yielded>>

ragVars == <<top_k, gen_model, call, store_calls, store_result, gen_calls, ret,
             add_calls>>
storeVars == <<collection, next_id>>
protoVars == <<response, wire, decoded>>
serverVars == <<db_connection, handlers, serving, request, reply, invoked,
                raised_methods>>
clientVars == <<client_call, posts, client_ret>>
txnVars == <<txn_pc, fate, committer>>
peerVars == <<clientVars, txnVars>>
extVars == <<storeVars, protoVars, serverVars, peerVars>>

vars == <<chunkVars, docVars, ragVars, extVars>>

\* ------------------------------------------------------ TextChunker

\* The texts of a given length, and of every length up to n.
TextsOfLen(n) == [1 .. n -> Alphabet]
Texts(n) == UNION {TextsOfLen(m) : m \in 0 .. n}

\* The metadata arguments: absent, empty, a caller's entry, and an entry
\* whose key is one that chunk_text sets itself.
Metadatas == {None, Some(EmptyDict), Some([source |-> 7]),
              Some([source |-> 7, chunk_index |-> 9])}

\* Lines 37-46: the end of the slice that starts at st.
ChunkEnd(txt, size, st) ==
    LET end == st + size
    IN  IF end < Len(txt)
        THEN LET last_period == RFind(txt, ".", st, end)
                 last_newline == RFind(txt, "\n", st, end)
                 last_space == RFind(txt, " ", st, end)
                 split_point == Max2(last_period, Max2(last_newline, last_space))
             IN  IF split_point > st THEN split_point + 1 ELSE end
        ELSE end

\* A mutant of NextStart: the overlap is forgotten.
NextStartNoOverlap(txt, end, overlap) == end

\* Line 63: where the next slice starts.
NextStart(txt, end, overlap) == IF end < Len(txt) THEN end - overlap ELSE end

\* Line 51: metadata.copy() if metadata else {}; None and the empty dict are
\* both false.
MetadataCopy(meta) ==
    IF IsNone(meta) THEN EmptyDict
    ELSE IF DOMAIN meta[1] = {} THEN EmptyDict ELSE meta[1]

\* A mutant of ChunkMetadata: chunk_index counted from 1.
ChunkMetadataOneBased(meta, st, end, chs) ==
    DictUpdate(MetadataCopy(meta),
               [chunk_start |-> st, chunk_end |-> end, chunk_index |-> Len(chs) + 1])

\* Lines 51-56: the metadata of the chunk cut at [st, end).
ChunkMetadata(meta, st, end, chs) ==
    DictUpdate(MetadataCopy(meta),
               [chunk_start |-> st, chunk_end |-> end, chunk_index |-> Len(chs)])

\* A mutant of AppendChunk: the slice is kept as it is cut.
AppendChunkUntrimmed(txt, meta, st, end, chs) ==
    LET chunk_text == Slice(txt, st, end)
    IN  IF chunk_text # <<>>
        THEN Append(chs, [text |-> chunk_text,
                          metadata |-> ChunkMetadata(meta, st, end, chs)])
        ELSE chs

\* Lines 48-61: chunks after the slice [st, end) has been looked at.
AppendChunk(txt, meta, st, end, chs) ==
    LET chunk_text == Strip(Slice(txt, st, end))
    IN  IF chunk_text # <<>>
        THEN Append(chs, [text |-> chunk_text,
                          metadata |-> ChunkMetadata(meta, st, end, chs)])
        ELSE chs

\* No call of the retriever or the pipeline has been made.
IdleCall == [op |-> "none"]
IdleReturn == [raised |-> FALSE, value |-> None]
RagIdle ==
    /\ call = IdleCall
    /\ store_calls = <<>>
    /\ store_result = None
    /\ gen_calls = <<>>
    /\ ret = IdleReturn
    /\ add_calls = <<>>

\* ChromaVectorStore.__init__: a collection that holds nothing yet.
StoreInit ==
    /\ collection = EmptyDict
    /\ next_id = 1

\* An MCPServer without a database connection that is not serving.
ServerIdle ==
    /\ db_connection = FALSE
    /\ handlers = EmptyDict
    /\ serving = FALSE
    /\ request = None
    /\ reply = None
    /\ invoked = <<>>
    /\ raised_methods = {}

\* No call of the MCPClient is being made.
ClientIdle ==
    /\ client_call = None
    /\ posts = <<>>
    /\ client_ret = None

\* The threads of the server.
Workers == 1 .. MaxWorkers

\* No thread is in _handle_execute_sql and the connection has no open
\* transaction.
TxnIdle ==
    /\ txn_pc = [w \in Workers |-> "idle"]
    /\ fate = [w \in Workers |-> "none"]
    /\ committer = [w \in Workers |-> 0]

\* No MCPResponse has been constructed.
ProtoIdle ==
    /\ response = None
    /\ wire = None
    /\ decoded = None

\* No call of the chunker has been made.
ChunkerIdle ==
    /\ pc = "idle"
    /\ text = <<>>
    /\ metadata = None
    /\ start = 0
    /\ chunks = <<>>
    /\ iter = 0
    /\ chunk_iter = <<>>
    /\ dpc = "idle"
    /\ documents = <<>>
    /\ metadatas = None
    /\ doc_i = 0
    /\ all_chunks = <<>>
    /\ all_metadatas = <<>>
    /\ yielded = <<>>

\* TextChunker.__init__: the two parameters are stored as given.  The
\* retriever and the generator beside it are left as their defaults make
\* them.
ChunkerInit ==
    /\ chunk_size \in 1 .. MaxSize
    /\ chunk_overlap \in 0 .. MaxOverlap
    /\ top_k = DefaultTopK
    /\ gen_model = "gpt-4"
    /\ RagIdle
    /\ ChunkerIdle
    /\ StoreInit
    /\ ProtoIdle
    /\ ServerIdle
    /\ ClientIdle
    /\ TxnIdle

\* chunk_text is called by a user of the chunker: lines 30-34.
CallChunkText ==
    /\ pc = "idle"
    /\ dpc = "idle"
    /\ \E txt \in Texts(MaxLen), meta \in Metadatas :
        /\ text' = txt
        /\ metadata' = meta
        /\ pc' = IF txt = <<>> THEN "returned" ELSE "loop"
    /\ start' = 0
    /\ chunks' = <<>>
    /\ iter' = 0
    /\ chunk_iter' = <<>>
    /\ UNCHANGED <<chunk_size, chunk_overlap>>
    /\ UNCHANGED <<docVars, ragVars, extVars>>

\* One iteration of the while loop: lines 36-63.
LoopIter ==
    /\ pc = "loop"
    /\ start < Len(text)
    /\ iter < MaxIter
    /\ LET end == ChunkEnd(text, chunk_size, start)
           chs == AppendChunk(text, metadata, start, end, chunks)
       IN  /\ chunks' = chs
           /\ start' = NextStart(text, end, chunk_overlap)
           /\ chunk_iter' = IF Len(chs) > Len(chunks)
                            THEN Append(chunk_iter, iter + 1) ELSE chunk_iter
    /\ iter' = iter + 1
    /\ UNCHANGED <<chunk_size, chunk_overlap, pc, text, metadata>>
    /\ UNCHANGED <<docVars, ragVars, extVars>>

\* The loop condition fails and chunk_text returns chunks: lines 36, 65.
ReturnChunks ==
    /\ pc = "loop"
    /\ ~(start < Len(text))
    /\ pc' = "returned"
    /\ UNCHANGED <<chunk_size, chunk_overlap, text, metadata, start, chunks,
                   iter, chunk_iter>>
    /\ UNCHANGED <<docVars, ragVars, extVars>>

ChunkNext == CallChunkText \/ LoopIter \/ ReturnChunks

ChunkSpec == ChunkerInit /\ [][ChunkNext]_vars

\* ------------------------------------------------------ chunk_documents

\* The lists of length up to n over the set S.
SeqsUpTo(S, n) == UNION {[1 .. m -> S] : m \in 0 .. n}

\* The documents of the lists handed to chunk_documents: the empty text, a
\* text of whitespace alone, and texts of one and of several chunks.
DocSamples == {<<>>, <<" ">>, <<"a", " ", "a">>, <<"a", ".", "a", "a">>}

\* The per-document metadata of those lists.
DocMetadatas == {EmptyDict, [source |-> 7]}

\* Lines 82-83: the metadatas that are zipped with the documents.
DefaultMetadatas(docs, metas) ==
    IF IsNone(metas) THEN [d \in 1 .. Len(docs) |-> EmptyDict] ELSE metas[1]

\* The pairs zip(documents, metadatas) yields: as many as the shorter list.
ZipLen(docs, metas) == Min2(Len(docs), Len(metas))

\* The values under key of the mappings of a list, in order.
Column(chs, key) == [i \in 1 .. Len(chs) |-> chs[i][key]]

\* chunk_documents is called: lines 82-86.
CallChunkDocuments ==
    /\ dpc = "idle"
    /\ pc = "idle"
    /\ \E docs \in SeqsUpTo(DocSamples, MaxDocs),
          metas \in {None} \cup {Some(m) : m \in SeqsUpTo(DocMetadatas, MaxDocs)} :
        /\ documents' = docs
        /\ metadatas' = Some(DefaultMetadatas(docs, metas))
    /\ dpc' = "zip"
    /\ doc_i' = 0
    /\ all_chunks' = <<>>
    /\ all_metadatas' = <<>>
    /\ yielded' = <<>>
    /\ UNCHANGED <<chunkVars, ragVars, extVars>>

\* The for loop takes the next pair and calls chunk_text with it: lines
\* 88-89, and lines 30-34 of chunk_text.
DocCall ==
    /\ dpc = "zip"
    /\ doc_i < ZipLen(documents, metadatas[1])
    /\ text' = documents[doc_i + 1]
    /\ metadata' = Some(metadatas[1][doc_i + 1])
    /\ pc' = IF documents[doc_i + 1] = <<>> THEN "returned" ELSE "loop"
    /\ start' = 0
    /\ chunks' = <<>>
    /\ iter' = 0
    /\ chunk_iter' = <<>>
    /\ dpc' = "chunking"
    /\ UNCHANGED <<chunk_size, chunk_overlap, documents, metadatas, doc_i,
                   all_chunks, all_metadatas, yielded>>
    /\ UNCHANGED <<ragVars, extVars>>

\* chunk_text has returned and its chunks are appended: lines 89-92.
DocCollect ==
    /\ dpc = "chunking"
    /\ pc = "returned"
    /\ all_chunks' = all_chunks \o Column(chunks, "text")
    /\ all_metadatas' = all_metadatas \o Column(chunks, "metadata")
    /\ yielded' = Append(yielded, [text |-> text, metadata |-> metadata[1],
                                   chunks |-> chunks])
    /\ doc_i' = doc_i + 1
    /\ dpc' = "zip"
    /\ pc' = "idle"
    /\ UNCHANGED <<chunk_size, chunk_overlap, text, metadata, start, chunks,
                   iter, chunk_iter, documents, metadatas>>
    /\ UNCHANGED <<ragVars, extVars>>

\* zip is exhausted and chunk_documents returns: lines 88, 94.
DocsReturn ==
    /\ dpc = "zip"
    /\ ~(doc_i < ZipLen(documents, metadatas[1]))
    /\ dpc' = "returned"
    /\ UNCHANGED <<documents, metadatas, doc_i, all_chunks, all_metadatas, yielded>>
    /\ UNCHANGED <<chunkVars, ragVars, extVars>>

DocsNext == CallChunkDocuments \/ DocCall \/ LoopIter \/ ReturnChunks
            \/ DocCollect \/ DocsReturn

DocsSpec == ChunkerInit /\ [][DocsNext]_vars

\* ------------------------------------------- Retriever, Generator, RAGPipeline

\* The documents the vector store holds, as similarity_search reports them.
StoredDocs ==
    {[id |-> "id-1", document |-> <<"A">>, metadata |-> [source |-> 7], distance |-> 1],
     [id |-> "id-2", document |-> <<"B">>, metadata |-> [source |-> 7], distance |-> 2],
     [id |-> "id-3", document |-> <<"a", "\n">>, metadata |-> [source |-> 8], distance |-> 2]}

\* The arguments of retrieve and query.
Queries == {<<>>, <<"q">>}
Ks == {None} \cup {Some(n) : n \in 0 .. MaxK}
Filters == {None, Some(EmptyDict), Some([source |-> 7])}
SystemPrompts == {None, Some(<<"s">>)}

\* What similarity_search may do when asked for k documents: raise (None),
\* or answer with at most k documents, in the store's order.
StoreAnswers(k) ==
    {None} \cup {Some(docs) : docs \in SeqsUpTo(StoredDocs, Min2(Max2(k, 0), MaxResults))}

\* What the generation backend may do: answer with a text and its usage
\* accounting, or fail with a message.
BackendOutcomes ==
    {[ok |-> TRUE, content |-> <<"o", "k">>, error |-> <<>>,
      usage |-> [prompt_tokens |-> 3, completion_tokens |-> 2, total_tokens |-> 5]],
     [ok |-> FALSE, content |-> <<>>, error |-> <<"d", "o", "w", "n">>,
      usage |-> [prompt_tokens |-> 0, completion_tokens |-> 0, total_tokens |-> 0]]}

\* retriever.py line 44: k or self.top_k.  None and 0 are both false.
EffectiveK(k, topk) ==
    IF IsNone(k) THEN topk ELSE IF k[1] = 0 THEN topk ELSE k[1]

\* "[Document i]", line 69.
DocumentHeader(i) ==
    <<"[", "D", "o", "c", "u", "m", "e", "n", "t", " ">> \o Decimal(i) \o <<"]">>

\* A mutant of FormatContext: the empty part that ends each block is left out.
FormatContextNoBlank(docs) ==
    IF docs = <<>> THEN <<>>
    ELSE Join(Flatten([i \in 1 .. Len(docs) |->
                          <<DocumentHeader(i), docs[i].document>>]),
              <<"\n">>)

\* Retriever.format_context, lines 64-73.
FormatContext(docs) ==
    IF docs = <<>> THEN <<>>
    ELSE Join(Flatten([i \in 1 .. Len(docs) |->
                          <<DocumentHeader(i), docs[i].document, <<>>>>]),
              <<"\n">>)

\* A mutant of GenerateResult: a failed generation still names the model and
\* reports a usage.
GenerateResultWithModel(outcome, model) ==
    IF outcome.ok
    THEN [answer |-> Some(outcome.content), model |-> model, usage |-> outcome.usage]
    ELSE [answer |-> None, error |-> outcome.error, model |-> model,
          usage |-> outcome.usage]

\* Generator.generate, lines 59-83: the mapping returned for an outcome of
\* the backend call.
GenerateResult(outcome, model) ==
    IF outcome.ok
    THEN [answer |-> Some(outcome.content), model |-> model, usage |-> outcome.usage]
    ELSE [answer |-> None, error |-> outcome.error]

\* A mutant of AttachDocuments: a failed generation is returned as it is.
AttachDocumentsOnSuccess(result, docs) ==
    IF "error" \in DOMAIN result THEN result
    ELSE DictUpdate(result, [retrieved_documents |-> docs, num_documents |-> Len(docs)])

\* pipeline.py lines 59-60.
AttachDocuments(result, docs) ==
    DictUpdate(result, [retrieved_documents |-> docs, num_documents |-> Len(docs)])

\* RAGPipeline.__init__: a Retriever with the given top_k, a Generator, and
\* a TextChunker with its defaults.
RagInit ==
    /\ top_k \in 1 .. MaxTopK
    /\ gen_model = "gpt-4"
    /\ chunk_size = DefaultChunkSize
    /\ chunk_overlap = DefaultChunkOverlap
    /\ ChunkerIdle
    /\ RagIdle
    /\ StoreInit
    /\ ProtoIdle
    /\ ServerIdle
    /\ ClientIdle
    /\ TxnIdle

\* Retriever.retrieve(query, k, filter), lines 27-52.  An exception of the
\* store is not caught.
Retrieve ==
    /\ call.op = "none"
    /\ \E q \in Queries, k \in Ks, f \in Filters :
        \E answer \in StoreAnswers(EffectiveK(k, top_k)) :
            /\ call' = [op |-> "retrieve", query |-> q, k |-> k, filter |-> f,
                        system_prompt |-> None]
            /\ store_calls' = <<[query |-> q, k |-> EffectiveK(k, top_k), filter |-> f]>>
            /\ store_result' = answer
            /\ ret' = [raised |-> IsNone(answer), value |-> answer]
    /\ gen_calls' = <<>>
    /\ UNCHANGED <<top_k, gen_model, add_calls, chunkVars, docVars, extVars>>

\* Retriever.format_context(retrieved_docs), lines 54-73.
FormatContextCall ==
    /\ call.op = "none"
    /\ \E docs \in SeqsUpTo(StoredDocs, MaxResults) :
        /\ call' = [op |-> "format_context", docs |-> docs]
        /\ ret' = [raised |-> FALSE, value |-> Some(FormatContext(docs))]
    /\ store_calls' = <<>>
    /\ store_result' = None
    /\ gen_calls' = <<>>
    /\ UNCHANGED <<top_k, gen_model, add_calls, chunkVars, docVars, extVars>>

\* RAGPipeline.query(query, k, filter, system_prompt), lines 34-62, with
\* the calls it makes: retrieve, format_context and generate.
Query ==
    /\ call.op = "none"
    /\ \E q \in Queries, k \in Ks, f \in Filters, sp \in SystemPrompts :
        \E answer \in StoreAnswers(EffectiveK(k, top_k)), outcome \in BackendOutcomes :
            /\ call' = [op |-> "query", query |-> q, k |-> k, filter |-> f,
                        system_prompt |-> sp]
            /\ store_calls' = <<[query |-> q, k |-> EffectiveK(k, top_k), filter |-> f]>>
            /\ store_result' = answer
            /\ IF IsNone(answer)
               THEN /\ gen_calls' = <<>>
                    /\ ret' = [raised |-> TRUE, value |-> None]
               ELSE /\ gen_calls' = <<[query |-> q, context |-> FormatContext(answer[1]),
                                       system_prompt |-> sp, ok |-> outcome.ok]>>
                    /\ ret' = [raised |-> FALSE,
                               value |-> Some(AttachDocuments(
                                   GenerateResult(outcome, gen_model), answer[1]))]
    /\ UNCHANGED <<top_k, gen_model, add_calls, chunkVars, docVars, extVars>>

\* The caller has its answer and is ready for its next call: the retriever
\* and the pipeline keep nothing of a call.
CallerContinues ==
    /\ call.op # "none"
    /\ call' = IdleCall
    /\ store_calls' = <<>>
    /\ store_result' = None
    /\ gen_calls' = <<>>
    /\ ret' = IdleReturn
    /\ add_calls' = <<>>
    /\ UNCHANGED <<top_k, gen_model, chunkVars, docVars, extVars>>

RagNext == Retrieve \/ FormatContextCall \/ Query \/ CallerContinues

RagSpec == RagInit /\ [][RagNext]_vars

\* --------------------------------------- RAGPipeline.add_documents, the store

\* The documents handed to add_documents: the empty text, a text of
\* whitespace alone, and texts with and without whitespace around them.
IngestDocs == {<<>>, <<" ">>, <<"A">>, <<" ", "B", "\n">>}

\* The metadatas handed with them: none, one per document, or a list of one.
IngestMetadatas(docs) ==
    {None, Some([i \in 1 .. Len(docs) |-> [source |-> 7]]), Some(<<[source |-> 7]>>)}

\* The while loop of chunk_text from position st on, lines 36-65: the chunks
\* it returns (Optional: None when it is still looping after fuel
\* iterations).
RECURSIVE ChunkTextFrom(_, _, _, _, _, _, _)
ChunkTextFrom(txt, meta, size, overlap, st, chs, fuel) ==
    IF ~(st < Len(txt)) THEN Some(chs)
    ELSE IF fuel = 0 THEN None
    ELSE LET end == ChunkEnd(txt, size, st)
         IN  ChunkTextFrom(txt, meta, size, overlap, NextStart(txt, end, overlap),
                           AppendChunk(txt, meta, st, end, chs), fuel - 1)

\* TextChunker.chunk_text(text, metadata), lines 19-65.
ChunkText(txt, meta, size, overlap) ==
    IF txt = <<>> THEN Some(<<>>)
    ELSE ChunkTextFrom(txt, meta, size, overlap, 0, <<>>, MaxIter)

\* The for loop of chunk_documents from pair i on, lines 88-94.
RECURSIVE ChunkDocumentsFrom(_, _, _, _, _, _)
ChunkDocumentsFrom(docs, metas, size, overlap, i, acc) ==
    IF i > ZipLen(docs, metas) THEN Some(acc)
    ELSE LET chs == ChunkText(docs[i], Some(metas[i]), size, overlap)
         IN  IF IsNone(chs) THEN None
             ELSE ChunkDocumentsFrom(docs, metas, size, overlap, i + 1,
                                     [texts |-> acc.texts \o Column(chs[1], "text"),
                                      metadatas |-> acc.metadatas
                                                    \o Column(chs[1], "metadata")])

\* TextChunker.chunk_documents(documents, metadatas), lines 67-94.
ChunkDocuments(docs, metas, size, overlap) ==
    ChunkDocumentsFrom(docs, DefaultMetadatas(docs, metas), size, overlap, 1,
                       [texts |-> <<>>, metadatas |-> <<>>])

\* A mutant of HandedToStore: the caller's documents are handed to the store
\* whatever the flag.
HandedToStoreUnchunked(docs, metas, chunk, chunked) ==
    [documents |-> docs, metadatas |-> metas]

\* pipeline.py lines 81-87: the arguments of the store's add_documents.
HandedToStore(docs, metas, chunk, chunked) ==
    IF chunk
    THEN [documents |-> chunked.texts, metadatas |-> Some(chunked.metadatas)]
    ELSE [documents |-> docs, metadatas |-> metas]

\* chroma_store.py lines 45-46: one new ID per document.
NewIds(nid, docs) == [i \in 1 .. Len(docs) |-> nid + i - 1]

\* A mutant of StoreAdd: the documents are stored in reverse order.
StoreAddReversed(coll, ids, docs, metas) ==
    [id \in DOMAIN coll \cup {ids[i] : i \in 1 .. Len(ids)} |->
        IF id \in DOMAIN coll THEN coll[id]
        ELSE LET i == CHOOSE j \in 1 .. Len(ids) : ids[j] = id
             IN  [document |-> docs[Len(docs) + 1 - i], metadata |-> metas[i]]]

\* collection.add(documents, metadatas, ids), lines 51-55: the collection
\* with the documents added under their IDs.
StoreAdd(coll, ids, docs, metas) ==
    [id \in DOMAIN coll \cup {ids[i] : i \in 1 .. Len(ids)} |->
        IF id \in DOMAIN coll THEN coll[id]
        ELSE LET i == CHOOSE j \in 1 .. Len(ids) : ids[j] = id
             IN  [document |-> docs[i], metadata |-> metas[i]]]

\* ChromaVectorStore.get_document(doc_id), lines 93-105.
GetDocument(coll, doc_id) ==
    IF doc_id \in DOMAIN coll
    THEN Some([id |-> doc_id, document |-> coll[doc_id].document,
               metadata |-> coll[doc_id].metadata])
    ELSE None

\* RAGPipeline.add_documents(documents, metadatas, chunk), lines 64-87, with
\* the calls it makes: chunk_documents and the store's add_documents
\* (chroma_store.py lines 38-57).  The store's add raises when the lists
\* differ in length, and it may raise for any reason of its own.
AddDocuments ==
    /\ call.op = "none"
    /\ next_id <= MaxStored
    /\ \E docs \in SeqsUpTo(IngestDocs, MaxDocs), chunk \in BOOLEAN, store_ok \in BOOLEAN :
        \E metas \in IngestMetadatas(docs) :
        \E chunked \in {IF chunk
                        THEN ChunkDocuments(docs, metas, chunk_size, chunk_overlap)
                        ELSE None} :
            /\ call' = [op |-> "add_documents", documents |-> docs,
                        metadatas |-> metas, chunk |-> chunk]
            /\ IF chunk /\ IsNone(chunked)
               THEN \* chunk_documents does not return
                    /\ add_calls' = <<>>
                    /\ ret' = IdleReturn
                    /\ UNCHANGED storeVars
               ELSE \E handed \in {HandedToStore(docs, metas, chunk,
                                       IF chunk THEN chunked[1] ELSE chunked)} :
                    \E ids \in {NewIds(next_id, handed.documents)},
                       stored \in {DefaultMetadatas(handed.documents, handed.metadatas)} :
                        /\ add_calls' = <<handed>>
                        /\ next_id' = next_id + Len(ids)
                        /\ IF store_ok /\ Len(stored) = Len(handed.documents)
                           THEN /\ collection' = StoreAdd(collection, ids,
                                                    handed.documents, stored)
                                /\ ret' = [raised |-> FALSE, value |-> Some(ids)]
                           ELSE /\ collection' = collection
                                /\ ret' = [raised |-> TRUE, value |-> None]
    /\ UNCHANGED <<top_k, gen_model, store_calls, store_result, gen_calls>>
    /\ UNCHANGED <<chunkVars, docVars, protoVars, serverVars, peerVars>>

\* ChromaVectorStore.get_document(doc_id) is called.
GetDocumentCall ==
    /\ call.op = "none"
    /\ \E doc_id \in 1 .. next_id :
        /\ call' = [op |-> "get_document", doc_id |-> doc_id]
        /\ ret' = [raised |-> FALSE, value |-> GetDocument(collection, doc_id)]
    /\ UNCHANGED <<top_k, gen_model, store_calls, store_result, gen_calls, add_calls>>
    /\ UNCHANGED <<chunkVars, docVars, extVars>>

IngestNext == AddDocuments \/ GetDocumentCall \/ CallerContinues

IngestSpec == RagInit /\ [][IngestNext]_vars

\* ------------------------------------------------- mcp/protocol.py

\* The strings of the protocol layer.
TypeRequest == <<"r", "e", "q", "u", "e", "s", "t">>
TypeResponse == <<"r", "e", "s", "p", "o", "n", "s", "e">>
TypeError == <<"e", "r", "r", "o", "r">>
Boom == <<"b", "o", "o", "m">>
IdR1 == <<"r", "1">>

\* data.get(key) on a decoded JSON object.  The values of such an object are
\* kept as Optionals, None standing for JSON's null.
Get(data, key) == IF key \in DOMAIN data THEN data[key] ELSE None

\* data.get(key, default).
GetOr(data, key, default) == IF key \in DOMAIN data THEN data[key] ELSE default

\* The truth value of an Optional[str]: None and "" are false.
Truthy(o) == ~IsNone(o) /\ o[1] # <<>>

\* The values of the fields of an MCPResponse.
Results == {None, Some([success |-> TRUE]), Some([success |-> FALSE]),
            Some([row_count |-> 0])}
Errors == {None, Some(<<>>), Some(Boom), Some(TypeError)}
Ids == {None, Some(<<>>), Some(IdR1), Some(Boom)}

\* MCPResponse(result, error, id), lines 39-44.
Responses == [result : Results, error : Errors, id : Ids]

\* A mutant of ToDict: the result is written whatever the error.
ToDictWithResult(r) ==
    IF Truthy(r.error)
    THEN [type |-> Some(TypeResponse), id |-> r.id, error |-> r.error,
          result |-> r.result]
    ELSE [type |-> Some(TypeResponse), id |-> r.id, result |-> r.result]

\* MCPResponse.to_dict, lines 46-56.
ToDict(r) ==
    IF Truthy(r.error)
    THEN [type |-> Some(TypeResponse), id |-> r.id, error |-> r.error]
    ELSE [type |-> Some(TypeResponse), id |-> r.id, result |-> r.result]

\* MCPResponse.from_dict, lines 58-65.
FromDict(data) ==
    [result |-> Get(data, "result"), error |-> Get(data, "error"),
     id |-> Get(data, "id")]

\* An MCPResponse is constructed.
Construct ==
    /\ \E r \in Responses : response' = Some(r)
    /\ wire' = None
    /\ decoded' = None
    /\ UNCHANGED <<chunkVars, docVars, ragVars, storeVars, serverVars, peerVars>>

\* to_dict is called on it.
Encode ==
    /\ ~IsNone(response)
    /\ IsNone(wire)
    /\ wire' = Some(ToDict(response[1]))
    /\ UNCHANGED <<response, decoded>>
    /\ UNCHANGED <<chunkVars, docVars, ragVars, storeVars, serverVars, peerVars>>

\* from_dict is called on the dict.
Decode ==
    /\ ~IsNone(wire)
    /\ IsNone(decoded)
    /\ decoded' = Some(FromDict(wire[1]))
    /\ UNCHANGED <<response, wire>>
    /\ UNCHANGED <<chunkVars, docVars, ragVars, storeVars, serverVars, peerVars>>

ProtoNext == Construct \/ Encode \/ Decode

ProtoSpec == RagInit /\ [][ProtoNext]_vars

\* ------------------------------------------------- mcp/server.py

\* The strings of the server: the names of the default handlers and of the
\* handlers registered by the application, a name without a handler, the
\* messages of the replies and of the exceptions, and a statement.
QueryDatabase ==
    <<"q", "u", "e", "r", "y", "_", "d", "a", "t", "a", "b", "a", "s", "e">>
ExecuteSql ==
    <<"e", "x", "e", "c", "u", "t", "e", "_", "s", "q", "l">>
GetSchema ==
    <<"g", "e", "t", "_", "s", "c", "h", "e", "m", "a">>
Echo ==
    <<"e", "c", "h", "o">>
Ping ==
    <<"p", "i", "n", "g">>
NoSuch ==
    <<"n", "o", "s", "u", "c", "h">>
InvalidRequestFormat ==
    <<"I", "n", "v", "a", "l", "i", "d", " ", "r", "e", "q", "u", "e", "s",
      "t", " ", "f", "o", "r", "m", "a", "t">>
MethodQuote ==
    <<"M", "e", "t", "h", "o", "d", " ", "'">>
NotFound ==
    <<"'", " ", "n", "o", "t", " ", "f", "o", "u", "n", "d">>
ErrorExecuting ==
    <<"E", "r", "r", "o", "r", " ", "e", "x", "e", "c", "u", "t", "i", "n",
      "g", " ", "m", "e", "t", "h", "o", "d", ":", " ">>
QueryRequired ==
    <<"Q", "u", "e", "r", "y", " ", "p", "a", "r", "a", "m", "e", "t", "e",
      "r", " ", "i", "s", " ", "r", "e", "q", "u", "i", "r", "e", "d">>
SqlRequired ==
    <<"S", "Q", "L", " ", "p", "a", "r", "a", "m", "e", "t", "e", "r", " ",
      "i", "s", " ", "r", "e", "q", "u", "i", "r", "e", "d">>
NoneStr ==
    <<"N", "o", "n", "e">>
NoneTypeGet ==
    <<"'", "N", "o", "n", "e", "T", "y", "p", "e", "'", " ", "o", "b", "j",
      "e", "c", "t", " ", "h", "a", "s", " ", "n", "o", " ", "a", "t", "t",
      "r", "i", "b", "u", "t", "e", " ", "'", "g", "e", "t", "'">>
ListGet ==
    <<"'", "l", "i", "s", "t", "'", " ", "o", "b", "j", "e", "c", "t", " ",
      "h", "a", "s", " ", "n", "o", " ", "a", "t", "t", "r", "i", "b", "u",
      "t", "e", " ", "'", "g", "e", "t", "'">>
BadRequest ==
    <<"4", "0", "0", " ", "B", "a", "d", " ", "R", "e", "q", "u", "e", "s",
      "t">>
OraError ==
    <<"O", "R", "A", "-", "0", "0", "9", "4", "2">>
SelectOne ==
    <<"S", "E", "L", "E", "C", "T", " ", "1">>

\* A mutant of Str: None is formatted as the empty string.
StrNoneEmpty(o) == IF IsNone(o) THEN <<>> ELSE o[1]

\* str(x) for an Optional[str]: str(None) is "None".
Str(o) == IF IsNone(o) THEN NoneStr ELSE o[1]

\* A key of a JSON object that is absent, and one that is present with a
\* value (None standing for null).
Absent == [present |-> FALSE, value |-> None]
Present(v) == [present |-> TRUE, value |-> v]

\* The JSON object with the present ones of the given fields.
Object(fields) ==
    [key \in {k \in DOMAIN fields : fields[k].present} |-> fields[key].value]

\* The fields of the JSON objects that are posted to /mcp.
TypeFields == {Absent, Present(Some(TypeRequest)), Present(Some(TypeResponse))}
MethodFields ==
    {Absent} \cup {Present(Some(m)) :
                      m \in {Echo, Ping, QueryDatabase, ExecuteSql, GetSchema, NoSuch}}
ParamsFields ==
    {Absent, Present(None), Present(Some(EmptyDict)),
     Present(Some([query |-> Some(SelectOne)])), Present(Some([query |-> Some(<<>>)])),
     Present(Some([sql |-> Some(SelectOne)])), Present(Some([sql |-> Some(<<>>)]))}
IdFields == {Absent, Present(Some(IdR1))}

RequestObjects ==
    {Object([type |-> t, method |-> m, params |-> p, id |-> i]) :
        t \in TypeFields, m \in MethodFields, p \in ParamsFields, i \in IdFields}

\* The bodies of the POSTs to /mcp, each with what request.get_json() does
\* with it: a request without a JSON body (get_json returns None or raises,
\* by the version of Flask), a body that is not JSON (it raises), the JSON
\* null, a JSON array with elements, and the JSON objects.
Bodies ==
    {[kind |-> "absent", get_json_raises |-> b, data |-> EmptyDict] : b \in BOOLEAN}
    \cup {[kind |-> "unparseable", get_json_raises |-> TRUE, data |-> EmptyDict],
          [kind |-> "null", get_json_raises |-> FALSE, data |-> EmptyDict],
          [kind |-> "array", get_json_raises |-> FALSE, data |-> EmptyDict]}
    \cup {[kind |-> "object", get_json_raises |-> FALSE, data |-> d] :
             d \in RequestObjects}

\* How a handler call ends: it returns a value or raises an exception with a
\* message, having made the calls of log on the database connection.
Returned(v, log) == [raised |-> FALSE, value |-> v, message |-> <<>>, log |-> log]
Raised(msg, log) == [raised |-> TRUE, value |-> None, message |-> msg, log |-> log]

\* The rows a cursor holds after a statement.
RowSets == {<<>>, <<[n |-> 1]>>}

\* The calls made on the connection when the fail-th call of ops raises
\* (fail = 0: none raises).
CallsMade(ops, fail) == IF fail = 0 THEN ops ELSE SubSeq(ops, 1, fail)

\* A mutant of HandleQueryDatabase: a failure of the database is raised, not
\* returned.
HandleQueryDatabaseRaising(params) ==
    IF IsNone(params) THEN {Raised(NoneTypeGet, <<>>)}
    ELSE IF ~Truthy(Get(params[1], "query")) THEN {Raised(QueryRequired, <<>>)}
    ELSE LET ops == <<"cursor", "execute", "fetchall">>
         IN  {Returned(Some([success |-> TRUE, data |-> rows, row_count |-> Len(rows)]),
                       ops) : rows \in RowSets}
             \cup {Raised(OraError, CallsMade(ops, fail)) : fail \in 1 .. Len(ops)}

\* MCPServer._handle_query_database(params), lines 86-119: the ways it can
\* end, by what the database does.
HandleQueryDatabase(params) ==
    IF IsNone(params) THEN {Raised(NoneTypeGet, <<>>)}
    ELSE IF ~Truthy(Get(params[1], "query")) THEN {Raised(QueryRequired, <<>>)}
    ELSE LET ops == <<"cursor", "execute", "fetchall">>
         IN  {Returned(Some([success |-> TRUE, data |-> rows, row_count |-> Len(rows)]),
                       ops) : rows \in RowSets}
             \cup {Returned(Some([success |-> FALSE, error |-> OraError]),
                            CallsMade(ops, fail)) : fail \in 1 .. Len(ops)}

\* MCPServer._handle_execute_sql(params), lines 121-150.  The rollback of
\* line 146 is outside any try.
HandleExecuteSql(params) ==
    IF IsNone(params) THEN {Raised(NoneTypeGet, <<>>)}
    ELSE IF ~Truthy(Get(params[1], "sql")) THEN {Raised(SqlRequired, <<>>)}
    ELSE LET ops == <<"cursor", "execute", "commit">>
         IN  {Returned(Some([success |-> TRUE, rows_affected |-> Len(rows)]), ops) :
                 rows \in RowSets}
             \cup {Returned(Some([success |-> FALSE, error |-> OraError]),
                            Append(CallsMade(ops, fail), "rollback")) :
                      fail \in 1 .. Len(ops)}
             \cup {Raised(OraError, Append(CallsMade(ops, fail), "rollback")) :
                      fail \in 1 .. Len(ops)}

\* MCPServer._handle_get_schema(params), lines 152-187: params is read
\* inside the try, after the cursor is made.
HandleGetSchema(params) ==
    LET ops == <<"cursor", "execute", "fetchall">>
    IN  {Returned(Some([success |-> FALSE, error |-> OraError]), <<"cursor">>)}
        \cup IF IsNone(params)
             THEN {Returned(Some([success |-> FALSE, error |-> NoneTypeGet]),
                            <<"cursor">>)}
             ELSE {Returned(Some([success |-> TRUE, tables |-> rows,
                                  count |-> Len(rows)]), ops) : rows \in RowSets}
                  \cup {Returned(Some([success |-> FALSE, error |-> OraError]),
                                 CallsMade(ops, fail)) : fail \in 2 .. Len(ops)}

\* A handler registered by the application: it returns None or a mapping,
\* or raises with or without a message.
HandleCustom(params) ==
    {Returned(None, <<>>), Returned(Some([echo |-> params]), <<>>),
     Raised(Boom, <<>>), Raised(<<>>, <<>>)}

\* self.handlers[method](params), line 56: the ways the call can end.
CallHandler(handler, params) ==
    CASE handler = "query_database" -> HandleQueryDatabase(params)
      [] handler = "execute_sql" -> HandleExecuteSql(params)
      [] handler = "get_schema" -> HandleGetSchema(params)
      [] OTHER -> HandleCustom(params)

\* Lines 38-41 and 69-72: the error envelope.
ErrorEnvelope(msg) == [type |-> Some(TypeError), error |-> Some(msg)]

\* Lines 36-46: get_json returned data, an object of type "request".
IsRequest(body) ==
    /\ ~body.get_json_raises
    /\ body.kind = "object"
    /\ body.data # EmptyDict
    /\ Get(body.data, "type") = Some(TypeRequest)

\* Line 48: the method of the request is a key of the handler table.
HasHandler(h, body) ==
    /\ ~IsNone(Get(body.data, "method"))
    /\ Get(body.data, "method")[1] \in DOMAIN h

\* A mutant of HandlerCalls: the handler is not called with the params of
\* the request but with an empty mapping.
HandlerCallsNoParams(h, body) ==
    IF IsRequest(body) /\ HasHandler(h, body)
    THEN {<<[method |-> Get(body.data, "method")[1],
             params |-> Some(EmptyDict),
             outcome |-> out]>> :
             out \in CallHandler(h[Get(body.data, "method")[1]], Some(EmptyDict))}
    ELSE {<<>>}

\* Lines 44-56: the handler calls handle_mcp_request makes for a body, in
\* every way they can end: one call for a request with a registered method,
\* none otherwise.
HandlerCalls(h, body) ==
    IF IsRequest(body) /\ HasHandler(h, body)
    THEN {<<[method |-> Get(body.data, "method")[1],
             params |-> GetOr(body.data, "params", Some(EmptyDict)),
             outcome |-> out]>> :
             out \in CallHandler(h[Get(body.data, "method")[1]],
                                 GetOr(body.data, "params", Some(EmptyDict)))}
    ELSE {<<>>}

\* A mutant of Reply: every exception is answered like one of get_json.
ReplyEnvelopeOnly(h, body, calls) ==
    IF body.get_json_raises THEN [status |-> 500, body |-> ErrorEnvelope(BadRequest)]
    ELSE IF body.kind = "array" THEN [status |-> 500, body |-> ErrorEnvelope(ListGet)]
    ELSE IF ~IsRequest(body)
    THEN [status |-> 400, body |-> ErrorEnvelope(InvalidRequestFormat)]
    ELSE IF ~HasHandler(h, body)
    THEN [status |-> 404,
          body |-> ToDict([result |-> None,
                           error |-> Some(MethodQuote \o Str(Get(body.data, "method"))
                                          \o NotFound),
                           id |-> Get(body.data, "id")])]
    ELSE IF calls[1].outcome.raised
    THEN [status |-> 500, body |-> ErrorEnvelope(calls[1].outcome.message)]
    ELSE [status |-> 200,
          body |-> ToDict([result |-> calls[1].outcome.value, error |-> None,
                           id |-> Get(body.data, "id")])]

\* handle_mcp_request, lines 34-73: the status and the JSON body returned
\* for a body, given the handler calls made for it.
Reply(h, body, calls) ==
    IF body.get_json_raises THEN [status |-> 500, body |-> ErrorEnvelope(BadRequest)]
    ELSE IF body.kind = "array" THEN [status |-> 500, body |-> ErrorEnvelope(ListGet)]
    ELSE IF ~IsRequest(body)
    THEN [status |-> 400, body |-> ErrorEnvelope(InvalidRequestFormat)]
    ELSE IF ~HasHandler(h, body)
    THEN [status |-> 404,
          body |-> ToDict([result |-> None,
                           error |-> Some(MethodQuote \o Str(Get(body.data, "method"))
                                          \o NotFound),
                           id |-> Get(body.data, "id")])]
    ELSE IF calls[1].outcome.raised
    THEN [status |-> 500,
          body |-> ToDict([result |-> None,
                           error |-> Some(ErrorExecuting \o calls[1].outcome.message),
                           id |-> Get(body.data, "id")])]
    ELSE [status |-> 200,
          body |-> ToDict([result |-> calls[1].outcome.value, error |-> None,
                           id |-> Get(body.data, "id")])]

\* A mutant of HandlersAfter: a handler that raised is taken out of the
\* table.
HandlersAfterDropRaised(h, calls) ==
    IF calls # <<>> /\ calls[1].outcome.raised
    THEN [m \in DOMAIN h \ {calls[1].method} |-> h[m]]
    ELSE h

\* handle_mcp_request, lines 34-73: the handler table after a request.  No
\* line of it writes self.handlers.
HandlersAfter(h, calls) == h

\* The methods whose handler has raised, after these calls.
RaisedAfter(raised, calls) ==
    IF calls # <<>> /\ calls[1].outcome.raised
    THEN raised \cup {calls[1].method}
    ELSE raised

\* MCPServer.__init__, lines 13-29 and 79-84: the default handlers are
\* registered when a connection is given.
ServerInit ==
    /\ db_connection \in BOOLEAN
    /\ handlers = IF db_connection
                  THEN [m \in {QueryDatabase, ExecuteSql, GetSchema} |->
                           IF m = QueryDatabase THEN "query_database"
                           ELSE IF m = ExecuteSql THEN "execute_sql"
                           ELSE "get_schema"]
                  ELSE EmptyDict
    /\ serving = FALSE
    /\ request = None
    /\ reply = None
    /\ invoked = <<>>
    /\ raised_methods = {}

McpInit ==
    /\ ServerInit
    /\ top_k = DefaultTopK
    /\ gen_model = "gpt-4"
    /\ chunk_size = DefaultChunkSize
    /\ chunk_overlap = DefaultChunkOverlap
    /\ ChunkerIdle
    /\ RagIdle
    /\ StoreInit
    /\ ProtoIdle
    /\ ClientIdle
    /\ TxnIdle

\* MCPServer.register_handler(method, handler), lines 189-198, called by the
\* application before it calls run.
RegisterHandler ==
    /\ ~serving
    /\ \E method \in {Echo, Ping} :
        handlers' = [m \in DOMAIN handlers \cup {method} |->
                        IF m = method THEN "custom" ELSE handlers[m]]
    /\ UNCHANGED <<db_connection, serving, request, reply, invoked, raised_methods>>
    /\ UNCHANGED <<chunkVars, docVars, ragVars, storeVars, protoVars, peerVars>>

\* MCPServer.run, lines 200-208.
Run ==
    /\ ~serving
    /\ serving' = TRUE
    /\ UNCHANGED <<db_connection, handlers, request, reply, invoked, raised_methods>>
    /\ UNCHANGED <<chunkVars, docVars, ragVars, storeVars, protoVars, peerVars>>

\* A POST to /mcp is answered: handle_mcp_request, lines 34-73, with the
\* handler call it makes.
HandleMcpRequest ==
    /\ serving
    /\ IsNone(request)
    /\ \E body \in Bodies :
        \E calls \in HandlerCalls(handlers, body) :
            /\ request' = Some(body)
            /\ invoked' = calls
            /\ reply' = Some(Reply(handlers, body, calls))
            /\ handlers' = HandlersAfter(handlers, calls)
            /\ raised_methods' = RaisedAfter(raised_methods, calls)
    /\ UNCHANGED <<db_connection, serving>>
    /\ UNCHANGED <<chunkVars, docVars, ragVars, storeVars, protoVars, peerVars>>

\* The reply has been sent and the connection is released: the server keeps
\* nothing of a request.
ConnectionReleased ==
    /\ ~IsNone(request)
    /\ request' = None
    /\ reply' = None
    /\ invoked' = <<>>
    /\ UNCHANGED <<db_connection, handlers, serving, raised_methods>>
    /\ UNCHANGED <<chunkVars, docVars, ragVars, storeVars, protoVars, peerVars>>

McpNext == RegisterHandler \/ Run \/ HandleMcpRequest \/ ConnectionReleased

McpSpec == McpInit /\ [][McpNext]_vars

\* ------------------------------------------------- mcp/client.py

\* The strings of the client: the method of execute_command, the messages
\* of the exceptions of requests, and the URL the client posts to by
\* default.
ExecuteCommand ==
    <<"e", "x", "e", "c", "u", "t", "e", "_", "c", "o", "m", "m", "a", "n",
      "d">>
ConnectionRefused ==
    <<"C", "o", "n", "n", "e", "c", "t", "i", "o", "n", " ", "r", "e", "f",
      "u", "s", "e", "d">>
ReadTimedOut ==
    <<"R", "e", "a", "d", " ", "t", "i", "m", "e", "d", " ", "o", "u", "t",
      ".">>
ExpectingValue ==
    <<"E", "x", "p", "e", "c", "t", "i", "n", "g", " ", "v", "a", "l", "u",
      "e", ":", " ", "l", "i", "n", "e", " ", "1", " ", "c", "o", "l", "u",
      "m", "n", " ", "1", " ", "(", "c", "h", "a", "r", " ", "0", ")">>
ForUrl ==
    <<" ", "f", "o", "r", " ", "u", "r", "l", ":", " ", "h", "t", "t", "p",
      ":", "/", "/", "l", "o", "c", "a", "l", "h", "o", "s", "t", ":", "8",
      "0", "8", "0", "/", "m", "c", "p">>

\* str(uuid.uuid4()), line 40: the IDs the calls draw.
Uuids == {IdR1, <<"u", "2">>}

\* x or {} for an Optional mapping x: None and the empty mapping are false.
OrEmpty(x) == IF IsNone(x) \/ x[1] = EmptyDict THEN EmptyDict ELSE x[1]

\* MCPRequest(method=method, params=params or {}, id=request_id), lines
\* 41-45.
NewRequest(method, params, request_id) ==
    [method |-> method, params |-> OrEmpty(params), id |-> request_id]

\* MCPRequest.to_dict, lines 29-36 of protocol.py.
RequestToDict(r) ==
    [type |-> Some(TypeRequest), method |-> Some(r.method),
     params |-> Some(r.params), id |-> Some(r.id)]

\* The body of the POST of line 48, as the server reads it.
PostedBody(r) ==
    [kind |-> "object", get_json_raises |-> FALSE, data |-> RequestToDict(r)]

\* The body of an HTTP response: none, or text that response.json() cannot
\* decode, or the JSON null, a JSON array or a JSON object.
NoJson == [kind |-> "none", data |-> EmptyDict]
JsonObject(d) == [kind |-> "object", data |-> d]
ForeignBodies ==
    {[kind |-> "undecodable", data |-> EmptyDict], [kind |-> "null", data |-> EmptyDict],
     [kind |-> "array", data |-> EmptyDict], JsonObject(EmptyDict)}

\* requests.post(...), lines 48-53: what can come of the one call, for a
\* server with the handler table h that is serving or not.  The connection
\* fails; the call times out, before the server has read the request or
\* while the server answers it; the server answers; or what listens at the
\* URL is not the server and answers in its own way.
HttpAttempts(h, up, body) ==
    {[kind |-> "connection", reached |-> FALSE, calls |-> <<>>, status |-> 0,
      json |-> NoJson],
     [kind |-> "timeout", reached |-> FALSE, calls |-> <<>>, status |-> 0,
      json |-> NoJson]}
    \cup {[kind |-> "foreign", reached |-> FALSE, calls |-> <<>>, status |-> s,
           json |-> j] : s \in {200, 502}, j \in ForeignBodies}
    \cup IF up
         THEN {[kind |-> "timeout", reached |-> TRUE, calls |-> c, status |-> 0,
                json |-> NoJson] : c \in HandlerCalls(h, body)}
              \cup {[kind |-> "server", reached |-> TRUE, calls |-> c,
                     status |-> Reply(h, body, c).status,
                     json |-> JsonObject(Reply(h, body, c).body)] :
                       c \in HandlerCalls(h, body)}
         ELSE {}

\* The reason phrase of a status line.
Reason(status) ==
    CASE status = 400 ->
            <<"B", "A", "D", " ", "R", "E", "Q", "U", "E", "S", "T">>
      [] status = 404 ->
            <<"N", "O", "T", " ", "F", "O", "U", "N", "D">>
      [] status = 500 ->
            <<"I", "N", "T", "E", "R", "N", "A", "L", " ", "S", "E", "R",
              "V", "E", "R", " ", "E", "R", "R", "O", "R">>
      [] OTHER ->
            <<"B", "a", "d", " ", "G", "a", "t", "e", "w", "a", "y">>

\* str(e) for the HTTPError of response.raise_for_status(), line 54.
HttpErrorMessage(status) ==
    Decimal(status)
    \o (IF status < 500
        THEN <<" ", "C", "l", "i", "e", "n", "t", " ", "E", "r", "r", "o",
               "r", ":", " ">>
        ELSE <<" ", "S", "e", "r", "v", "e", "r", " ", "E", "r", "r", "o",
               "r", ":", " ">>)
    \o Reason(status) \o ForUrl

\* How a call of the client ends: it returns an MCPResponse or raises.
ClientReturned(r) == [raised |-> FALSE, response |-> Some(r), exception |-> "none"]
ClientRaised(exc) == [raised |-> TRUE, response |-> None, exception |-> exc]

\* MCPResponse(error=str(e), id=request_id), line 60.
TransportError(msg, request_id) ==
    [result |-> None, error |-> Some(msg), id |-> Some(request_id)]

\* Lines 47-60, after the post: the ways send_request can end.  The
\* exception of response.json() for a body that is not JSON is a
\* RequestException or a plain ValueError, by the version of requests;
\* from_dict calls get on what json() returned, whatever it is.
ClientOutcomes(request_id, attempt) ==
    CASE attempt.kind = "connection" ->
            {ClientReturned(TransportError(ConnectionRefused, request_id))}
      [] attempt.kind = "timeout" ->
            {ClientReturned(TransportError(ReadTimedOut, request_id))}
      [] attempt.status >= 400 ->
            {ClientReturned(TransportError(HttpErrorMessage(attempt.status),
                                           request_id))}
      [] attempt.json.kind = "undecodable" ->
            {ClientReturned(TransportError(ExpectingValue, request_id)),
             ClientRaised("JSONDecodeError")}
      [] attempt.json.kind = "object" ->
            {ClientReturned(FromDict(attempt.json.data))}
      [] OTHER -> {ClientRaised("AttributeError")}

\* MCPClient.send_request(method, params), lines 22-60, called through the
\* method named by wrapper, with what the server does when the post reaches
\* it (handle_mcp_request, lines 34-73 of server.py).
SendRequest(wrapper, method, params) ==
    /\ IsNone(request)
    /\ \E request_id \in Uuids :
        \E req \in {NewRequest(method, params, request_id)} :
        \E attempt \in HttpAttempts(handlers, serving, PostedBody(req)) :
        \E out \in ClientOutcomes(request_id, attempt) :
            /\ client_call' = Some([wrapper |-> wrapper, request |-> req])
            /\ posts' = <<attempt>>
            /\ client_ret' = Some(out)
            /\ IF attempt.reached
               THEN /\ request' = Some(PostedBody(req))
                    /\ invoked' = attempt.calls
                    /\ reply' = Some(Reply(handlers, PostedBody(req), attempt.calls))
                    /\ handlers' = HandlersAfter(handlers, attempt.calls)
                    /\ raised_methods' = RaisedAfter(raised_methods, attempt.calls)
               ELSE UNCHANGED <<request, invoked, reply, handlers, raised_methods>>
    /\ UNCHANGED <<db_connection, serving>>
    /\ UNCHANGED <<chunkVars, docVars, ragVars, storeVars, protoVars, txnVars>>

\* An application that is not in a call of the client calls send_request
\* itself.
SendRequestCall ==
    /\ IsNone(client_call)
    /\ \E method \in {QueryDatabase, ExecuteSql, Echo, NoSuch} :
        \E params \in {None, Some(EmptyDict), Some([query |-> Some(SelectOne)]),
                       Some([sql |-> Some(SelectOne)])} :
            SendRequest("send_request", method, params)

\* MCPClient.query_database(query, context), lines 62-81.
QueryDatabaseCall ==
    /\ IsNone(client_call)
    /\ \E query \in {SelectOne, <<>>} :
        \E context \in {None, Some([user |-> Some(Boom)])} :
            SendRequest("query_database", QueryDatabase,
                        Some([query |-> Some(query),
                              context |-> Some(OrEmpty(context))]))

\* MCPClient.get_schema(), lines 83-90.
GetSchemaCall ==
    /\ IsNone(client_call)
    /\ SendRequest("get_schema", GetSchema, None)

\* MCPClient.execute_command(command, args), lines 92-111.
ExecuteCommandCall ==
    /\ IsNone(client_call)
    /\ \E command \in {Ping, SelectOne} :
        \E args \in {None, Some([n |-> Some(Boom)])} :
            SendRequest("execute_command", ExecuteCommand,
                        Some([command |-> Some(command),
                              args |-> Some(OrEmpty(args))]))

\* The caller has its answer, and the server has released the connection.
ClientContinues ==
    /\ ~IsNone(client_call)
    /\ client_call' = None
    /\ posts' = <<>>
    /\ client_ret' = None
    /\ request' = None
    /\ reply' = None
    /\ invoked' = <<>>
    /\ UNCHANGED <<db_connection, handlers, serving, raised_methods>>
    /\ UNCHANGED <<chunkVars, docVars, ragVars, storeVars, protoVars, txnVars>>

ClientNext ==
    \/ RegisterHandler
    \/ Run
    \/ SendRequestCall
    \/ QueryDatabaseCall
    \/ GetSchemaCall
    \/ ExecuteCommandCall
    \/ ClientContinues

ClientSpec == McpInit /\ [][ClientNext]_vars

\* ------------------------- execute_sql in threads, on one connection

\* The statements the connection has executed and neither committed nor
\* rolled back: its open transaction.
Pending == {w \in Workers : fate[w] = "pending"}

\* The transaction is ended by thread w: its statements become what.
EndTransaction(w, what) ==
    /\ fate' = [v \in Workers |-> IF v \in Pending THEN what ELSE fate[v]]
    /\ committer' = [v \in Workers |-> IF v \in Pending THEN w ELSE committer[v]]

\* Thread w moves to the place to.
Goto(w, to) == txn_pc' = [txn_pc EXCEPT ![w] = to]

\* A request for execute_sql with a statement is dispatched in a thread:
\* line 56, and lines 130-133 of _handle_execute_sql.
TxnDispatch ==
    \E w \in Workers :
        /\ txn_pc[w] = "idle"
        /\ Goto(w, "cursor")
        /\ UNCHANGED <<fate, committer>>
        /\ UNCHANGED <<chunkVars, docVars, ragVars, storeVars, protoVars, serverVars,
                       clientVars>>

\* cursor = self.db_connection.cursor(), line 136: it returns or raises.
TxnCursor ==
    \E w \in Workers :
        /\ txn_pc[w] = "cursor"
        /\ \E ok \in BOOLEAN : Goto(w, IF ok THEN "execute" ELSE "rollback")
        /\ UNCHANGED <<fate, committer>>
        /\ UNCHANGED <<chunkVars, docVars, ragVars, storeVars, protoVars, serverVars,
                       clientVars>>

\* cursor.execute(sql), line 137: the statement joins the open transaction
\* of the connection, or the call raises.
TxnExecute ==
    \E w \in Workers :
        /\ txn_pc[w] = "execute"
        /\ \E ok \in BOOLEAN :
            IF ok
            THEN /\ Goto(w, "commit")
                 /\ fate' = [fate EXCEPT ![w] = "pending"]
            ELSE /\ Goto(w, "rollback")
                 /\ fate' = fate
        /\ UNCHANGED committer
        /\ UNCHANGED <<chunkVars, docVars, ragVars, storeVars, protoVars, serverVars,
                       clientVars>>

\* self.db_connection.commit() and the return of lines 138-143: the open
\* transaction of the connection is committed, whoever executed its
\* statements, or the call raises.
TxnCommit ==
    \E w \in Workers :
        /\ txn_pc[w] = "commit"
        /\ \E ok \in BOOLEAN :
            IF ok
            THEN /\ Goto(w, "success")
                 /\ EndTransaction(w, "committed")
            ELSE /\ Goto(w, "rollback")
                 /\ UNCHANGED <<fate, committer>>
        /\ UNCHANGED <<chunkVars, docVars, ragVars, storeVars, protoVars, serverVars,
                       clientVars>>

\* self.db_connection.rollback() and the return of lines 144-150: the open
\* transaction is rolled back, whoever executed its statements, or the
\* call raises and the exception leaves the handler.
TxnRollback ==
    \E w \in Workers :
        /\ txn_pc[w] = "rollback"
        /\ \E ok \in BOOLEAN :
            IF ok
            THEN /\ Goto(w, "failure")
                 /\ EndTransaction(w, "discarded")
            ELSE /\ Goto(w, "raised")
                 /\ UNCHANGED <<fate, committer>>
        /\ UNCHANGED <<chunkVars, docVars, ragVars, storeVars, protoVars, serverVars,
                       clientVars>>

\* The request is answered (lines 58-66) and the thread is free for the
\* next one.
TxnAnswered ==
    \E w \in Workers :
        /\ txn_pc[w] \in {"success", "failure", "raised"}
        /\ fate[w] # "pending"
        /\ Goto(w, "idle")
        /\ fate' = [fate EXCEPT ![w] = "none"]
        /\ committer' = [committer EXCEPT ![w] = 0]
        /\ UNCHANGED <<chunkVars, docVars, ragVars, storeVars, protoVars, serverVars,
                       clientVars>>

TxnNext ==
    \/ TxnDispatch
    \/ TxnCursor
    \/ TxnExecute
    \/ TxnCommit
    \/ TxnRollback
    \/ TxnAnswered

TxnSpec == McpInit /\ [][TxnNext]_vars

\* ------------------------------------------------- claims on chunk_text

\* The source span of chunk i of the result, as its metadata records it.
SpanStart(i) == chunks[i].metadata.chunk_start
SpanEnd(i) == chunks[i].metadata.chunk_end

ValidConfig == 0 <= chunk_overlap /\ chunk_overlap < chunk_size

\* C1: with 0 <= chunk_overlap < chunk_size, every iteration of the loop of
\* chunk_text moves start forward, so that the loop reaches
\* start >= len(text) and chunk_text terminates.
C1_ForwardProgress ==
    [][(ValidConfig /\ pc = "loop" /\ iter' = iter + 1) => start' > start]_vars

\* C2: a TextChunker with chunk_overlap >= chunk_size never enters the
\* chunking loop: it fails with a configuration error before.
C2_FailFast == (chunk_overlap >= chunk_size) => pc # "loop"

\* C3: with chunk_size > chunk_overlap >= 0, the spans [chunk_start,
\* chunk_end) of the chunks chunk_text returns cover every index of
\* [0, len(text)).
C3_SpansCover ==
    (ValidConfig /\ pc = "returned") =>
        \A idx \in 0 .. (Len(text) - 1) :
            \E i \in 1 .. Len(chunks) : SpanStart(i) <= idx /\ idx < SpanEnd(i)

\* C4, as claimed: any two consecutive chunks of the result share exactly
\* chunk_overlap characters of the source, also when a whitespace-only
\* slice was dropped between them.
C4_ExactOverlap ==
    \A i \in 1 .. (Len(chunks) - 1) : SpanStart(i + 1) = SpanEnd(i) - chunk_overlap

\* C4, as amended: two consecutive chunks of the result that were cut by
\* consecutive iterations of the loop (no slice was dropped between them)
\* share exactly chunk_overlap characters of the source: the later one
\* starts at the end of the earlier one minus chunk_overlap.
C4_ExactOverlapAdjacent ==
    \A i \in 1 .. (Len(chunks) - 1) :
        (chunk_iter[i + 1] = chunk_iter[i] + 1) =>
            SpanStart(i + 1) = SpanEnd(i) - chunk_overlap

\* chunk_text has returned two chunks cut by consecutive iterations, under
\* a positive overlap.
C4_Witness ==
    /\ pc = "returned"
    /\ chunk_overlap > 0
    /\ \E i \in 1 .. (Len(chunks) - 1) : chunk_iter[i + 1] = chunk_iter[i] + 1

\* C5: the chunk at position i (0-based) of the result of chunk_text has
\* chunk_index = i, also after empty slices were dropped and also when the
\* caller's metadata has a chunk_index entry of its own.
C5_IndexSequential ==
    \A i \in 1 .. Len(chunks) : chunks[i].metadata.chunk_index = i - 1

\* chunk_text has returned chunks with a dropped slice between two of them.
C5_Witness ==
    /\ pc = "returned"
    /\ \E i \in 1 .. (Len(chunks) - 1) : chunk_iter[i + 1] > chunk_iter[i] + 1

\* C6: with chunk_size > chunk_overlap >= 0, every chunk of the result has
\* 0 <= chunk_start < chunk_end <= len(text).
C6_OffsetsWithinText ==
    ValidConfig =>
        \A i \in 1 .. Len(chunks) :
            0 <= SpanStart(i) /\ SpanStart(i) < SpanEnd(i) /\ SpanEnd(i) <= Len(text)

\* C7: chunk_documents returns two lists of equal length, the chunk texts
\* and the chunk metadatas that chunk_text yields for each document with its
\* own metadata, document after document; every document of the input
\* contributes its chunks.
C7_AllDocumentsChunked ==
    (dpc = "returned") =>
        /\ Len(all_chunks) = Len(all_metadatas)
        /\ Len(yielded) = Len(documents)
        /\ \A d \in 1 .. Len(yielded) :
              /\ yielded[d].text = documents[d]
              /\ yielded[d].metadata = metadatas[1][d]
        /\ all_chunks =
              Flatten([d \in 1 .. Len(yielded) |-> Column(yielded[d].chunks, "text")])
        /\ all_metadatas =
              Flatten([d \in 1 .. Len(yielded) |-> Column(yielded[d].chunks, "metadata")])

\* ------------------------------------- claims on the retriever and the pipeline

\* The block of document i of a context: "[Document i]\n<document text>\n".
ContextBlock(docs, i) ==
    DocumentHeader(i) \o <<"\n">> \o docs[i].document \o <<"\n">>

\* The blocks of docs from the i-th on, each but the last followed by one
\* more line feed.
RECURSIVE ContextBlocks(_, _)
ContextBlocks(docs, i) ==
    IF i > Len(docs) THEN <<>>
    ELSE IF i = Len(docs) THEN ContextBlock(docs, i)
    ELSE ContextBlock(docs, i) \o <<"\n">> \o ContextBlocks(docs, i + 1)

DocA == CHOOSE d \in StoredDocs : d.document = <<"A">>
DocB == CHOOSE d \in StoredDocs : d.document = <<"B">>

\* C8: format_context returns "" for no documents, and for n >= 1 documents
\* the blocks "[Document i]\n<text>\n", i = 1..n in input order, separated by
\* one more line feed; the documents A, B give
\* "[Document 1]\nA\n\n[Document 2]\nB\n".
C8_FormatContext ==
    (call.op = "format_context") =>
        /\ (call.docs = <<>>) => ret.value = Some(<<>>)
        /\ ret.value = Some(ContextBlocks(call.docs, 1))
        /\ (call.docs = <<DocA, DocB>>) =>
              ret.value = Some(<<"[", "D", "o", "c", "u", "m", "e", "n", "t", " ", "1", "]", "\n",
                                 "A", "\n", "\n",
                                 "[", "D", "o", "c", "u", "m", "e", "n", "t", " ", "2", "]", "\n",
                                 "B", "\n">>)

\* format_context has been called with the two documents A and B.
C8_Witness == call.op = "format_context" /\ call.docs = <<DocA, DocB>>

\* C9: retrieve, and query through it, calls similarity_search exactly once,
\* with the caller's query and filter unchanged and with the caller's k
\* whenever the caller supplies one (top_k otherwise), and returns the
\* store's answer unchanged.
C9_ArgumentsPassThrough ==
    (call.op \in {"retrieve", "query"}) =>
        /\ store_calls = <<[query |-> call.query,
                            k |-> IF IsNone(call.k) THEN top_k ELSE call.k[1],
                            filter |-> call.filter]>>
        /\ (call.op = "retrieve" /\ ~ret.raised) => ret.value = store_result

\* C10: every result query returns has retrieved_documents equal to the list
\* the retriever returned and num_documents equal to its length, after a
\* successful generation and after a failed one alike.
C10_DocumentsAttached ==
    (call.op = "query" /\ ~ret.raised) =>
        /\ {"retrieved_documents", "num_documents"} \subseteq DOMAIN ret.value[1]
        /\ ret.value[1].retrieved_documents = store_result[1]
        /\ ret.value[1].num_documents = Len(store_result[1])

\* query has returned after the generator reported a failure, with
\* documents retrieved.
C10_Witness ==
    /\ call.op = "query"
    /\ ~ret.raised
    /\ ret.value[1].answer = None
    /\ "error" \in DOMAIN ret.value[1]
    /\ Len(store_result[1]) = 2


\* ------------------------------------------- claims on failures of a query

\* A call of RAGPipeline.query that returned a mapping.
QueryReturned == call.op = "query" /\ ~ret.raised /\ ~IsNone(ret.value)

\* C11: no failure of a backend leaves the pipeline as a raised exception:
\* a call of query ends with a returned payload, whatever the vector store
\* and the generation backend did.
C11_NoFaultEscapes == call.op = "query" => ~ret.raised

\* C12 as stated: every mapping query returns has the keys answer,
\* retrieved_documents, num_documents, model and usage, and has the key
\* error exactly when the generation failed, after one generation attempt.
C12_AllKeys ==
    QueryReturned =>
        /\ {"answer", "retrieved_documents", "num_documents", "model", "usage"}
               \subseteq DOMAIN ret.value[1]
        /\ Len(gen_calls) = 1
        /\ ("error" \in DOMAIN ret.value[1]) <=> ~gen_calls[1].ok

\* C12, amended: every mapping query returns has the keys answer,
\* retrieved_documents and num_documents; it has model and usage exactly when
\* the generation succeeded and error exactly when it failed; and the
\* generation was attempted exactly once.
C12_ResultKeys ==
    QueryReturned =>
        /\ Len(gen_calls) = 1
        /\ {"answer", "retrieved_documents", "num_documents"}
               \subseteq DOMAIN ret.value[1]
        /\ ("model" \in DOMAIN ret.value[1]) <=> gen_calls[1].ok
        /\ ("usage" \in DOMAIN ret.value[1]) <=> gen_calls[1].ok
        /\ ("error" \in DOMAIN ret.value[1]) <=> ~gen_calls[1].ok
        /\ DOMAIN ret.value[1] \subseteq
               {"answer", "retrieved_documents", "num_documents", "model",
                "usage", "error"}

\* A query whose generation failed has returned, with retrieved documents.
C12_Witness ==
    /\ QueryReturned
    /\ Len(gen_calls) = 1
    /\ ~gen_calls[1].ok
    /\ "error" \in DOMAIN ret.value[1]
    /\ "num_documents" \in DOMAIN ret.value[1]
    /\ ret.value[1].num_documents > 0


\* ------------------------------------------------ claims on add_documents

\* A call of RAGPipeline.add_documents that reached the store.
StoreReached == call.op = "add_documents" /\ (ret.raised \/ ~IsNone(ret.value))

\* The document stored under the i-th ID that add_documents returned.
LookedUp(i) == GetDocument(collection, ret.value[1][i])

\* C13: add_documents makes one call of the store; with chunk true it hands
\* the store the texts and metadatas chunk_documents returns, with chunk
\* false the caller's documents and metadatas; what it returns is one ID per
\* document handed over, and the i-th ID looks up the i-th of them; so with
\* chunk false, n documents give n IDs and the i-th ID looks up the i-th
\* original text.
C13_StoreHandOff ==
    StoreReached =>
        /\ Len(add_calls) = 1
        /\ IF call.chunk
           THEN LET chunked == ChunkDocuments(call.documents, call.metadatas,
                                              chunk_size, chunk_overlap)
                IN  /\ ~IsNone(chunked)
                    /\ add_calls[1].documents = chunked[1].texts
                    /\ add_calls[1].metadatas = Some(chunked[1].metadatas)
           ELSE /\ add_calls[1].documents = call.documents
                /\ add_calls[1].metadatas = call.metadatas
        /\ ~ret.raised =>
            /\ Len(ret.value[1]) = Len(add_calls[1].documents)
            /\ \A i \in 1 .. Len(ret.value[1]) :
                /\ ~IsNone(LookedUp(i))
                /\ LookedUp(i)[1].document = add_calls[1].documents[i]
            /\ ~call.chunk =>
                /\ Len(ret.value[1]) = Len(call.documents)
                /\ \A i \in 1 .. Len(call.documents) :
                    LookedUp(i)[1].document = call.documents[i]

\* Two documents were stored verbatim, and the second comes back with the
\* whitespace around it.
C13_Witness ==
    /\ StoreReached
    /\ ~ret.raised
    /\ ~call.chunk
    /\ Len(call.documents) = 2
    /\ call.documents[1] # call.documents[2]
    /\ Len(ret.value[1]) = 2
    /\ LookedUp(2) # None
    /\ LookedUp(2)[1].document = <<" ", "B", "\n">>


\* ------------------------------------------------- claims on MCPResponse

\* C14: the dict to_dict returns has exactly one of the keys result and
\* error, whatever the fields of the response.
C14_ExactlyOneKey ==
    ~IsNone(wire) =>
        ("result" \in DOMAIN wire[1]) # ("error" \in DOMAIN wire[1])

\* A response whose error is the empty string and whose result is None has
\* been encoded.
C14_Witness ==
    /\ ~IsNone(wire)
    /\ response[1].error = Some(<<>>)
    /\ IsNone(response[1].result)
    /\ "result" \in DOMAIN wire[1]

\* C15: from_dict(r.to_dict()) has the id of r, the result of r when r has
\* no error set, and the error of r when r has one.
C15_RoundTrip ==
    ~IsNone(decoded) =>
        /\ decoded[1].id = response[1].id
        /\ IsNone(response[1].error) => decoded[1].result = response[1].result
        /\ ~IsNone(response[1].error) => decoded[1].error = response[1].error


\* ------------------------------------------- claims on the /mcp endpoint

\* A POST to /mcp has been answered; its JSON object, and the JSON body of
\* the answer.
Answered == ~IsNone(request) /\ ~IsNone(reply)
ReqData == request[1].data
ReplyBody == reply[1].body

\* The body is a JSON object whose type is "request".
TypeIsRequest ==
    /\ request[1].kind = "object"
    /\ "type" \in DOMAIN ReqData
    /\ ReqData.type = Some(TypeRequest)

\* The method of the request is a key of the handler table.
MethodRegistered ==
    /\ "method" \in DOMAIN ReqData
    /\ ~IsNone(ReqData.method)
    /\ ReqData.method[1] \in DOMAIN handlers

\* The id of the request, None when it has none.
RequestId == IF "id" \in DOMAIN ReqData THEN ReqData.id ELSE None

\* The answer is a response with this error, without a result, and with
\* the id of the request.
ErrorResponse(msg) ==
    /\ DOMAIN ReplyBody = {"type", "id", "error"}
    /\ ReplyBody.type = Some(TypeResponse)
    /\ ReplyBody.error = Some(msg)
    /\ ReplyBody.id = RequestId

\* C16: a POST whose payload is missing or whose type is not "request" is
\* answered with status 400 and an error envelope, and no handler is
\* called for it.
C16_Malformed400 ==
    (Answered /\ ~TypeIsRequest) =>
        /\ reply[1].status = 400
        /\ "type" \in DOMAIN ReplyBody
        /\ ReplyBody.type = Some(TypeError)
        /\ "error" \in DOMAIN ReplyBody
        /\ invoked = <<>>

C18_HandlerRaises500 ==
    /\ (Answered /\ invoked # <<>> /\ invoked[1].outcome.raised) =>
        /\ reply[1].status = 500
        /\ ErrorResponse(ErrorExecuting \o invoked[1].outcome.message)
    /\ (Answered /\ TypeIsRequest /\ MethodRegistered
        /\ "params" \in DOMAIN ReqData /\ ~IsNone(ReqData.params)) =>
        /\ (handlers[ReqData.method[1]] = "query_database"
            /\ ("query" \in DOMAIN ReqData.params[1] => ReqData.params[1].query = Some(<<>>)))
           => /\ Len(invoked) = 1
              /\ invoked[1].outcome.raised
              /\ invoked[1].outcome.message = QueryRequired
              /\ invoked[1].outcome.log = <<>>
              /\ reply[1].status = 500
        /\ (handlers[ReqData.method[1]] = "execute_sql"
            /\ ("sql" \in DOMAIN ReqData.params[1] => ReqData.params[1].sql = Some(<<>>)))
           => /\ Len(invoked) = 1
              /\ invoked[1].outcome.raised
              /\ invoked[1].outcome.message = SqlRequired
              /\ invoked[1].outcome.log = <<>>
              /\ reply[1].status = 500

\* A query_database request with an empty query has been answered.
C18_Witness ==
    /\ Answered
    /\ TypeIsRequest
    /\ MethodRegistered
    /\ ReqData.method = Some(QueryDatabase)
    /\ "params" \in DOMAIN ReqData
    /\ ReqData.params = Some([query |-> Some(<<>>)])
    /\ reply[1].status = 500
    /\ ReplyBody.error = Some(ErrorExecuting \o QueryRequired)

DispatchedTo(h) ==
    /\ Answered
    /\ TypeIsRequest
    /\ MethodRegistered
    /\ handlers[ReqData.method[1]] = h

\* The params of the request are a mapping that holds a non-empty string
\* under key.
ParamsHold(key) ==
    /\ "params" \in DOMAIN ReqData
    /\ ~IsNone(ReqData.params)
    /\ key \in DOMAIN ReqData.params[1]
    /\ Truthy(ReqData.params[1][key])

\* The answer has status 200 and a result that is a mapping with a Boolean
\* under success, of one of the two shapes of query_database.
QueryPayload200 ==
    /\ reply[1].status = 200
    /\ DOMAIN ReplyBody = {"type", "id", "result"}
    /\ ~IsNone(ReplyBody.result)
    /\ "success" \in DOMAIN ReplyBody.result[1]
    /\ ReplyBody.result[1].success \in BOOLEAN
    /\ IF ReplyBody.result[1].success
       THEN DOMAIN ReplyBody.result[1] = {"success", "data", "row_count"}
       ELSE DOMAIN ReplyBody.result[1] = {"success", "error"}

PlaceIn(log, op) ==
    IF \E i \in 1 .. Len(log) : log[i] = op
    THEN CHOOSE i \in 1 .. Len(log) : log[i] = op
    ELSE 0

\* C22: an execute_sql call with a non-empty sql returns; when it returns
\* success, commit was called after execute and rollback was not called;
\* when execute or commit failed, rollback was called last and the call
\* returns {success: false, error}.
C22_CommitOrRollback ==
    (DispatchedTo("execute_sql") /\ ParamsHold("sql")) =>
        LET out == invoked[1].outcome
        IN  /\ ~out.raised
            /\ ~IsNone(out.value)
            /\ IF out.value[1].success
               THEN /\ DOMAIN out.value[1] = {"success", "rows_affected"}
                    /\ PlaceIn(out.log, "execute") > 0
                    /\ PlaceIn(out.log, "commit") > PlaceIn(out.log, "execute")
                    /\ PlaceIn(out.log, "rollback") = 0
               ELSE /\ DOMAIN out.value[1] = {"success", "error"}
                    /\ out.log[Len(out.log)] = "rollback"

\* ------------------------------------- claims on the slices of chunk_text

\* A step of the loop of chunk_text.
LoopStep == pc = "loop" /\ iter' = iter + 1

\* The delimiters a slice may end on.
Delimiters == {".", "\n", " "}

\* The end of the slice that starts at st as C24 words it: p + 1 for the
\* largest index p of [st, st + size) that holds a delimiter when p > st,
\* and st + size otherwise; st + size when that is not before the end of
\* the text.
SnapEnd(txt, size, st) ==
    LET tentative == st + size
        held == {p \in st .. (tentative - 1) :
                    p >= 0 /\ p < Len(txt) /\ txt[p + 1] \in Delimiters}
    IN  IF tentative < Len(txt) /\ held # {}
        THEN LET p == CHOOSE q \in held : \A r \in held : r <= q
             IN  IF p > st THEN p + 1 ELSE tentative
        ELSE tentative

\* C24: every iteration of the loop chooses the end that SnapEnd gives:
\* the next start is computed from it, and the chunk that the iteration
\* appends records it as its chunk_end.
C24_SnapToDelimiter ==
    [][LoopStep =>
        LET end == SnapEnd(text, chunk_size, start)
        IN  /\ start' = IF end < Len(text) THEN end - chunk_overlap ELSE end
            /\ Len(chunks') > Len(chunks) =>
                   chunks'[Len(chunks')].metadata.chunk_end = end]_vars

\* s without its leading whitespace, and without its trailing whitespace.
RECURSIVE TrimLeft(_)
TrimLeft(s) ==
    IF s = <<>> THEN <<>>
    ELSE IF Head(s) \in Whitespace THEN TrimLeft(Tail(s)) ELSE s
RECURSIVE TrimRight(_)
TrimRight(s) ==
    IF s = <<>> THEN <<>>
    ELSE IF s[Len(s)] \in Whitespace THEN TrimRight(SubSeq(s, 1, Len(s) - 1)) ELSE s

\* C25: chunk_text returns no chunk for the empty text; an iteration that
\* cuts text[start:end] appends one chunk, whose text is the slice
\* trimmed, exactly when the trimmed slice is not empty, and leaves the
\* chunks as they are otherwise; in both cases the next start is
\* end - chunk_overlap when end < len(text) and end when not.
C25_TrimmedSlices ==
    [][/\ (pc' = "returned" /\ text' = <<>>) => chunks' = <<>>
       /\ LoopStep =>
            LET end == ChunkEnd(text, chunk_size, start)
                trimmed == TrimRight(TrimLeft(Slice(text, start, end)))
            IN  /\ IF trimmed # <<>>
                   THEN /\ Len(chunks') = Len(chunks) + 1
                        /\ SubSeq(chunks', 1, Len(chunks)) = chunks
                        /\ chunks'[Len(chunks')].text = trimmed
                   ELSE chunks' = chunks
                /\ start' = IF end < Len(text) THEN end - chunk_overlap ELSE end]_vars

\* A slice was dropped and a chunk is shorter than the slice it was cut
\* from.
C25_Witness ==
    /\ pc = "returned"
    /\ iter > Len(chunks)
    /\ \E i \in 1 .. Len(chunks) :
        /\ SpanStart(i) >= 0
        /\ SpanEnd(i) <= Len(text)
        /\ Len(chunks[i].text) < SpanEnd(i) - SpanStart(i)

\* ------------------------------------------------- claims on the client

\* A call of the client has ended, having made its post.
ClientAnswered == ~IsNone(client_call) /\ ~IsNone(client_ret) /\ Len(posts) >= 1

\* C23: a call of send_request does not raise: it returns an MCPResponse
\* after exactly one post, whatever came of the post, and when the post
\* failed in transport the response has a non-empty error and the ID drawn
\* for the call.
C23_NeverRaises ==
    ClientAnswered =>
        /\ Len(posts) = 1
        /\ ~client_ret[1].raised
        /\ ~IsNone(client_ret[1].response)
        /\ posts[1].kind \in {"connection", "timeout"} =>
               /\ Truthy(client_ret[1].response[1].error)
               /\ client_ret[1].response[1].id = Some(client_call[1].request.id)

\* C27: when the server answers the post with status 404 or 500, the
\* MCPResponse the client returns has the error of the server's envelope
\* and the ID of the request.
C27_ServerErrorCarried ==
    (/\ ClientAnswered
     /\ posts[1].kind = "server"
     /\ posts[1].status \in {404, 500}) =>
        /\ ~client_ret[1].raised
        /\ client_ret[1].response[1].error = Get(posts[1].json.data, "error")
        /\ client_ret[1].response[1].id = Some(client_call[1].request.id)

\* The handler table of a server constructed with a connection, with no
\* handler registered after.
DefaultTable == db_connection /\ DOMAIN handlers = {QueryDatabase, ExecuteSql, GetSchema}

\* C28: the method a wrapper of the client sends is in the handler table of
\* such a server, which does not answer it with status 404.
C28_WrappersHaveHandlers ==
    (/\ ClientAnswered
     /\ client_call[1].wrapper \in {"query_database", "get_schema", "execute_command"}
     /\ DefaultTable) =>
        /\ client_call[1].request.method \in DOMAIN handlers
        /\ posts[1].kind = "server" => posts[1].status # 404

\* ------------------------------------- claims on the shared connection

\* C26: a request for execute_sql that is answered with success has had its
\* own statement committed, by its own commit: no other request's rollback
\* has discarded it and no other request's commit has committed it.
C26_OwnStatementCommitted ==
    \A w \in Workers :
        txn_pc[w] = "success" => fate[w] = "committed" /\ committer[w] = w

====
